---- MODULE Spec2Model ----
(***************************************************************************)
(* A model of mutil (src/mutil.js): the scrobd poll loop, the cmus status  *)
(* adapter, the sqlite store and the today / time-chart reports.           *)
(*                                                                         *)
(* JavaScript values are modelled as follows.                               *)
(*   - an object is a function whose DOMAIN is the set of keys it has; a   *)
(*     key that is not in the DOMAIN reads as undefined;                    *)
(*   - "a value or undefined" is a sequence of length at most one (Get);    *)
(*   - a number is a record [nan, v]: Num(n) is the integer n, NaN is NaN;  *)
(*   - text is a TLA+ string, joined with \o.                               *)
(* A table row is a function from the columns that are not NULL.            *)
(* Wall-clock instants are milliseconds since the epoch, days are UTC.      *)
(***************************************************************************)
EXTENDS Integers, Sequences, FiniteSets, TLC

VARIABLES
    pc,            \* position of the scrobd process: "loop" or "crashed"
    err,           \* why the scrobd process crashed, "none" while it runs
    lastTrackId,   \* mutil.js:181
    lastPollTime,  \* mutil.js:182
    playTime,      \* mutil.js:183
    scrobd,        \* mutil.js:184
    status,        \* mutil.js:197, the snapshot of the current iteration
    store,         \* rows of the scrobs table, in insertion order
    runScrobs,     \* history: rows inserted in the current run of
                   \* same-identity playing ticks
    playScrobs,    \* history: rows inserted since the identity last changed
    before,        \* history: the session when the current iteration began
    firstSeen,     \* history: the instant of the iteration that first saw
                   \* the identity in lastTrackId
    lastNow,       \* history: the latest reading of Date.now()
    sock,          \* mutil.js:145, the client socket: "connecting", "open",
                   \* "closed" (by the peer) or "error"
    written,       \* what the client has written to the socket
    response,      \* the text the player answers with, as a sequence of pieces
    delivered,     \* how many pieces of it have reached the client
    ended,         \* client.end() has been called
    promise,       \* mutil.js:144, the promise of issueCmusCmd
    raw,           \* the value the promise resolved with
    apc,           \* position of getCmusStatus: "idle", "await", "returned",
                   \* "crashed"
    output,        \* mutil.js:159, the object getCmusStatus returns
    report,        \* what the last today / time-chart command computed
    tables,        \* how many tables named scrobs the database file holds
    dbpc,          \* position of each process in getDb: "idle", "select",
                   \* "create", "done" or "failed"
    compared,      \* two snapshots of consecutive iterations, <<>> if none
    keys           \* the trackId computed for each of them (mutil.js:198)

loopVars == <<pc, err, lastTrackId, lastPollTime, playTime, scrobd, status,
              store, runScrobs, playScrobs, before, firstSeen,
              lastNow>>

adapterVars == <<sock, written, response, delivered, ended, promise, raw,
                 apc, output>>

reportVars == <<report>>

dbVars == <<tables, dbpc>>

keyVars == <<compared, keys>>

vars == <<loopVars, adapterVars, reportVars, dbVars, keyVars>>

----------------------------------------------------------------------------
(* JavaScript values *)

Null == "<null>"

Num(n) == [nan |-> FALSE, v |-> n]

NaN == [nan |-> TRUE, v |-> 0]

Get(obj, k) == IF k \in DOMAIN obj THEN <<obj[k]>> ELSE <<>>

Field(k, opt) == IF opt = <<>> THEN <<>> ELSE (k :> opt[1])

Min(a, b) == IF a < b THEN a ELSE b

----------------------------------------------------------------------------
(* Inputs *)

DayMs == 24 * 60 * 60 * 1000

SleepMs == 2000

StartTime == DayMs - 100000

\* The instants Date.now() returns in the model. The process starts 100 s
\* before the midnight that begins day 1.
Readings ==
    { StartTime, StartTime + 2000, StartTime + 4000, StartTime + 100000,
      StartTime + 102001, StartTime + 240000, StartTime + 242001 }

StatusInputs == { <<"playing">>, <<"paused">>, <<>> }

DurationInputs == { <<Num(0)>>, <<Num(200)>>, <<Num(600)>>, <<>> }

\* <<albumartist, artist, album, title, musicbrainz_trackid>>
TagInputs ==
    { << <<"A">>, <<"B">>, <<"X">>, <<"T">>, <<"m">> >>,
      << <<>>,    <<"B">>, <<"X">>, <<"T">>, <<>> >>,
      << <<>>,    <<>>,    <<>>,    <<"T">>, <<>> >> }

\* The objects getCmusStatus can return: every field may be missing.
Snapshots ==
    { Field("status", st) @@ Field("duration", d)
        @@ Field("albumartist", tg[1]) @@ Field("artist", tg[2])
        @@ Field("album", tg[3]) @@ Field("title", tg[4])
        @@ Field("musicbrainz_trackid", tg[5]) :
        st \in StatusInputs, d \in DurationInputs, tg \in TagInputs }

----------------------------------------------------------------------------
(* commands.scrobd *)

\* status.albumartist || status.artist
AlbumArtistOrArtist(st) ==
    LET aa == Get(st, "albumartist")
    IN  IF aa # <<>> /\ aa[1] # "" THEN aa ELSE Get(st, "artist")

\* Array.prototype.join renders undefined as the empty string
JoinPart(opt) == IF opt = <<>> THEN "" ELSE opt[1]

TrackId(st) ==
    JoinPart(AlbumArtistOrArtist(st)) \o "::" \o JoinPart(Get(st, "album"))
        \o "::" \o JoinPart(Get(st, "title"))

\* status.duration * 500
DurationTimes500(st) ==
    LET d == Get(st, "duration")
    IN  IF d = <<>> \/ d[1].nan THEN NaN ELSE Num(d[1].v * 500)

\* Math.min(240000, x)
MathMin240000(x) == IF x.nan THEN NaN ELSE Num(Min(240000, x.v))

TimeToScrob(st) == MathMin240000(DurationTimes500(st))

JsGreater_OrEqual(n, x) == ~x.nan /\ n >= x.v

\* n > x for an integer n and a number x
JsGreater(n, x) == ~x.nan /\ n > x.v

IsPlaying(st) == Get(st, "status") = <<"playing">>

ShouldScrob_NoThreshold(sc, pt, st) == ~sc

\* lines 212-218
ShouldScrob(sc, pt, st) ==
    ~sc /\ (pt > 240000 \/ JsGreater(pt, DurationTimes500(st)))

\* the values bound to the INSERT; undefined and NaN are bound as NULL
ScrobRow(st, now) ==
    LET d == Get(st, "duration")
    IN  Field("albumartist", AlbumArtistOrArtist(st))
          @@ Field("album", Get(st, "album"))
          @@ Field("title", Get(st, "title"))
          @@ Field("musicbrainz_trackid", Get(st, "musicbrainz_trackid"))
          @@ Field("duration", IF d = <<>> \/ d[1].nan THEN <<>> ELSE <<d[1].v>>)
          @@ ("at" :> (now \div 1000))

\* CREATE TABLE scrobs: the NOT NULL columns
NotNullColumns == { "albumartist", "album", "title", "duration", "at" }

ConstraintsHold(row) == NotNullColumns \subseteq DOMAIN row

\* INTEGER PRIMARY KEY: the store assigns the next rowid
InsertRow(rows, row) == Append(rows, ("id" :> (Len(rows) + 1)) @@ row)

NextPlayTime_CountTwice(pt, same, playing, elapsed) ==
    IF same /\ playing THEN pt + elapsed + elapsed
    ELSE IF ~same THEN 0
    ELSE pt

NextPlayTime_NoReset(pt, same, playing, elapsed) ==
    IF same /\ playing THEN pt + elapsed ELSE pt

NextPlayTime_ResetOnPause(pt, same, playing, elapsed) ==
    IF same /\ playing THEN pt + elapsed ELSE 0

NextPlayTime(pt, same, playing, elapsed) ==
    IF same /\ playing THEN pt + elapsed
    ELSE IF ~same THEN 0
    ELSE pt

NextScrobd_ResetOnPause(sc, same, playing, inserted) ==
    IF same /\ playing THEN (sc \/ inserted) ELSE FALSE

NextScrobd_NeverSet(sc, same, playing, inserted) ==
    IF same /\ playing THEN sc
    ELSE IF ~same THEN FALSE
    ELSE sc

NextScrobd(sc, same, playing, inserted) ==
    IF same /\ playing THEN (sc \/ inserted)
    ELSE IF ~same THEN FALSE
    ELSE sc

ScrobdOnReject_SetFirst(sc) == TRUE

\* scrobd when the awaited INSERT rejects: line 237 is not reached
ScrobdOnReject(sc) == sc

\* ~~(a / b) for an integer a and a number b: NaN and the infinities give 0,
\* a quotient loses its fraction (the quotients of the model stay far below
\* 2^31, where ~~ would wrap)
ToInt32Quotient(a, b) ==
    IF b.nan \/ b.v = 0 THEN 0
    ELSE LET absA == IF a >= 0 THEN a ELSE -a
             absB == IF b.v > 0 THEN b.v ELSE -b.v
         IN  IF (a >= 0) = (b.v > 0)
             THEN absA \div absB
             ELSE -(absA \div absB)

\* a template literal renders undefined as "undefined"
TemplateText(opt) == IF opt = <<>> THEN "undefined" ELSE opt[1]

\* lines 204-207: the line an iteration prints for the snapshot st when the
\* session holds sc (scrobd) and pt (playTime)
StatusLine(sc, pt, st) ==
    [glyph |-> IF IsPlaying(st) THEN "play" ELSE "pause",
     albumartist |-> TemplateText(Get(st, "albumartist")),
     title |-> TemplateText(Get(st, "title")),
     check |-> sc,
     percent |-> IF sc THEN 0 ELSE ToInt32Quotient(pt * 100, TimeToScrob(st))]

\* the line the current iteration has printed
Line == StatusLine(before.scrobd, before.playTime, status)

Session ==
    [lastTrackId |-> lastTrackId, lastPollTime |-> lastPollTime,
     playTime |-> playTime, scrobd |-> scrobd, rows |-> Len(store)]

\* lines 180-184; the table the scrobd process finds holds the given rows
LoopInitWith(rows) ==
    /\ pc = "loop"
    /\ err = "none"
    /\ lastTrackId = Null
    /\ lastPollTime = StartTime
    /\ playTime = 0
    /\ scrobd = FALSE
    /\ status = <<>>
    /\ store = rows
    /\ runScrobs = 0
    /\ playScrobs = 0
    /\ before = [lastTrackId |-> Null, lastPollTime |-> StartTime,
                 playTime |-> 0, scrobd |-> FALSE, rows |-> Len(rows)]
    /\ firstSeen = StartTime
    /\ lastNow = StartTime

LoopInit == LoopInitWith(<<>>)

\* The session after an iteration that ran to line 247 at instant t3.
Advance(st, pt, inserted, t3) ==
    LET trackId == TrackId(st)
        same    == trackId = lastTrackId
        playing == IsPlaying(st)
    IN  /\ pc' = "loop"
        /\ err' = "none"
        /\ status' = st
        /\ before' = Session
        /\ playTime' = pt
        /\ scrobd' = NextScrobd(scrobd, same, playing, inserted)
        /\ lastTrackId' = trackId
        /\ lastPollTime' = t3
        /\ firstSeen' = IF same THEN firstSeen ELSE t3
        /\ lastNow' = t3
        /\ runScrobs' = IF same /\ playing
                        THEN runScrobs + (IF inserted THEN 1 ELSE 0)
                        ELSE 0
        /\ playScrobs' = IF same
                         THEN playScrobs + (IF inserted THEN 1 ELSE 0)
                         ELSE 0

\* The INSERT of line 219 at instant t2; ioOk tells whether the store's I/O
\* works. A rejected INSERT rejects the handler's promise: the loop ends.
Scrob(st, pt, t2, t3, ioOk) ==
    LET row == ScrobRow(st, t2)
    IN  IF ioOk /\ ConstraintsHold(row)
        THEN /\ store' = InsertRow(store, row)
             /\ Advance(st, pt, TRUE, t3)
        ELSE /\ pc' = "crashed"
             /\ err' = IF ioOk THEN "SQLITE_CONSTRAINT" ELSE "SQLITE_IOERR"
             /\ status' = st
             /\ before' = Session
             /\ playTime' = pt
             /\ scrobd' = ScrobdOnReject(scrobd)
             /\ lastNow' = t2
             /\ UNCHANGED <<lastTrackId, lastPollTime, store, runScrobs,
                            playScrobs, firstSeen>>

\* sleep(2000) separates an iteration from the next; the first iteration
\* follows line 182 directly. The clock does not go backwards.
EarliestPoll == lastPollTime + (IF lastTrackId = Null THEN 0 ELSE SleepMs)

\* One iteration of the while loop on a snapshot of snaps. t1, t2, t3 are
\* the readings of Date.now() at lines 210, 233 and 247, taken from clock; a
\* monotone clock does not go backwards and has moved on by the sleep.
PollOn(snaps, clock, monotone) ==
    /\ pc = "loop"
    /\ UNCHANGED <<adapterVars, reportVars, dbVars, keyVars>>
    /\ \E st \in snaps, t3 \in clock :
         LET same    == TrackId(st) = lastTrackId
             playing == IsPlaying(st)
         IN  /\ monotone => t3 >= EarliestPoll
             /\ IF same /\ playing
                THEN \E t1 \in clock :
                       LET pt == NextPlayTime(playTime, same, playing,
                                              t1 - lastPollTime)
                       IN  /\ monotone => (t1 >= EarliestPoll /\ t1 <= t3)
                           /\ IF ShouldScrob(scrobd, pt, st)
                              THEN \E t2 \in clock, ioOk \in BOOLEAN :
                                     /\ monotone => (t1 <= t2 /\ t2 <= t3)
                                     /\ Scrob(st, pt, t2, t3, ioOk)
                              ELSE /\ store' = store
                                   /\ Advance(st, pt, FALSE, t3)
                ELSE /\ store' = store
                     /\ Advance(st, NextPlayTime(playTime, same, playing, 0),
                                FALSE, t3)

\* the loop under a clock that does not go backwards
Poll == PollOn(Snapshots, Readings, TRUE)

MaxSkewRows == 1

MaxSkewPlay == 4000

\* the instants of a clock that is set back and forth
SkewReadings == { StartTime, StartTime + 2000, StartTime + 4000 }

\* the snapshots of a player that reports a status and a duration for a
\* track that names its artist
SkewSnapshots ==
    { st \in Snapshots : /\ "status" \in DOMAIN st
                         /\ "duration" \in DOMAIN st
                         /\ AlbumArtistOrArtist(st) # <<>> }

\* the loop under a clock that may be set back between two readings
PollSkewed ==
    /\ PollOn(SkewSnapshots, SkewReadings, FALSE)
    /\ Len(store') <= MaxSkewRows
    /\ playTime' >= -MaxSkewPlay
    /\ playTime' <= MaxSkewPlay

----------------------------------------------------------------------------
(* issueCmusCmd and getCmusStatus *)

\* The text of a response is a sequence of pieces: "\n", " " and fragments of
\* words. The stream delivers it in chunks that end between two pieces.
Responses ==
    { <<>>,
      << "status", " ", "stopped", "\n" >>,
      << "sta", "tus", " ", "playing", "\n",
         "duration", " ", "2", "00", "\n",
         "tag", " ", "artist", " ", "B", "\n",
         "tag", " ", "title", " ", "T", " ", "U", "\n" >> }

\* the numerals that occur in the responses, and "" (+"" is 0)
Numerals == ("" :> 0) @@ ("0" :> 0) @@ ("2" :> 2) @@ ("20" :> 20) @@ ("200" :> 200)

RECURSIVE Concat(_)
\* Buffer.toString of a run of pieces
Concat(pieces) ==
    IF pieces = <<>> THEN "" ELSE pieces[1] \o Concat(Tail(pieces))

RECURSIVE SplitOn(_, _)
\* String.prototype.split: the runs between the separators
SplitOn(pieces, sep) ==
    IF \E i \in 1..Len(pieces) : pieces[i] = sep
    THEN LET i == CHOOSE i \in 1..Len(pieces) :
                     /\ pieces[i] = sep
                     /\ \A j \in 1..(i - 1) : pieces[j] # sep
         IN  <<SubSeq(pieces, 1, i - 1)>>
                 \o SplitOn(SubSeq(pieces, i + 1, Len(pieces)), sep)
    ELSE <<pieces>>

\* line.split(' ')
Words(line) ==
    LET runs == SplitOn(line, " ")
    IN  [i \in 1..Len(runs) |-> Concat(runs[i])]

RECURSIVE JoinSpace(_)
\* rest.join(' ')
JoinSpace(words) ==
    IF words = <<>> THEN ""
    ELSE IF Len(words) = 1 THEN words[1]
    ELSE words[1] \o " " \o JoinSpace(Tail(words))

\* +p2
ToNumber(opt) ==
    IF opt # <<>> /\ opt[1] \in DOMAIN Numerals
    THEN Num(Numerals[opt[1]])
    ELSE NaN

\* obj[k] = value; a key set to undefined reads like a key that is not set
Assign(obj, k, opt) ==
    IF opt = <<>>
    THEN [x \in DOMAIN obj \ {k} |-> obj[x]]
    ELSE (k :> opt[1]) @@ obj

\* the body of the forEach of line 161
ParseLine(obj, line) ==
    LET words  == Words(line)
        leader == words[1]
        p2     == IF Len(words) >= 2 THEN <<words[2]>> ELSE <<>>
        rest   == SubSeq(words, 3, Len(words))
    IN  IF leader = "status" THEN Assign(obj, "status", p2)
        ELSE IF leader = "duration" THEN Assign(obj, "duration", <<ToNumber(p2)>>)
        ELSE IF leader = "position" THEN Assign(obj, "position", <<ToNumber(p2)>>)
        ELSE IF leader = "tag"
             THEN Assign(obj, IF p2 = <<>> THEN "undefined" ELSE p2[1],
                         <<JoinSpace(rest)>>)
        ELSE obj

RECURSIVE ParseLines(_, _)
ParseLines(obj, lines) ==
    IF lines = <<>> THEN obj
    ELSE ParseLines(ParseLine(obj, lines[1]), Tail(lines))

\* getCmusStatus, lines 159-171
ParseStatus(data) == ParseLines(<<>>, SplitOn(data, "\n"))

AdapterIdle ==
    /\ sock = "closed"
    /\ written = <<>>
    /\ response = <<>>
    /\ delivered = 0
    /\ ended = FALSE
    /\ promise = "pending"
    /\ raw = <<>>
    /\ apc = "idle"
    /\ output = <<>>

\* getCmusStatus has called issueCmusCmd('status'): net.createConnection
AdapterInit ==
    /\ sock = "connecting"
    /\ written = <<>>
    /\ response \in Responses
    /\ delivered = 0
    /\ ended = FALSE
    /\ promise = "pending"
    /\ raw = <<>>
    /\ apc = "await"
    /\ output = <<>>

\* 'connect', line 147
Connect ==
    /\ sock = "connecting"
    /\ sock' = "open"
    /\ written' = << "status", "\n" >>
    /\ UNCHANGED <<response, delivered, ended, promise, raw, apc, output>>
    /\ UNCHANGED <<loopVars, reportVars, dbVars, keyVars>>

\* 'error': no listener is registered, the emitter throws and the process
\* ends with an uncaught exception
SocketError ==
    /\ sock \in {"connecting", "open"}
    /\ sock' = "error"
    /\ apc' = "crashed"
    /\ UNCHANGED <<written, response, delivered, ended, promise, raw, output>>
    /\ UNCHANGED <<loopVars, reportVars, dbVars, keyVars>>

\* 'data', line 150: the next chunk of the response
Data ==
    /\ sock = "open"
    /\ \E k \in 1..(Len(response) - delivered) :
         /\ delivered' = delivered + k
         /\ ended' = TRUE
         /\ promise' = "resolved"
         /\ raw' = IF promise = "pending"
                   THEN SubSeq(response, delivered + 1, delivered + k)
                   ELSE raw
    /\ UNCHANGED <<sock, written, response, apc, output>>
    /\ UNCHANGED <<loopVars, reportVars, dbVars, keyVars>>

\* the peer closes the stream
PeerClose ==
    /\ sock = "open"
    /\ sock' = "closed"
    /\ UNCHANGED <<written, response, delivered, ended, promise, raw, apc,
                   output>>
    /\ UNCHANGED <<loopVars, reportVars, dbVars, keyVars>>

\* getCmusStatus resumes after the await of line 158
ReturnStatus ==
    /\ apc = "await"
    /\ promise = "resolved"
    /\ output' = ParseStatus(raw)
    /\ apc' = "returned"
    /\ UNCHANGED <<sock, written, response, delivered, ended, promise, raw>>
    /\ UNCHANGED <<loopVars, reportVars, dbVars, keyVars>>

NextAdapter == Connect \/ SocketError \/ Data \/ PeerClose \/ ReturnStatus

----------------------------------------------------------------------------
(* commands.today and commands.timeChart *)

MaxRows == 2

\* instants at which earlier runs of scrobd inserted rows
RowTimes == { DayMs - 98000, DayMs, DayMs + 2001, 3 * DayMs + 140000 }

\* instants at which a report is asked for
ReportTimes == { DayMs + 300000, 7 * DayMs + 300000, 12 * DayMs }

\* the rows the INSERT of line 219 accepts
ValidRows ==
    { row \in { ScrobRow(st, t) : st \in Snapshots, t \in RowTimes } :
        ConstraintsHold(row) }

RECURSIVE StoresOfLen(_)
\* the tables of n rows, inserted in the order of their instants
StoresOfLen(n) ==
    IF n = 0 THEN { <<>> }
    ELSE { InsertRow(rows, row) :
             <<rows, row>> \in
                { pair \in StoresOfLen(n - 1) \X ValidRows :
                    \/ pair[1] = <<>>
                    \/ pair[1][Len(pair[1])].at <= pair[2].at } }

Stores == UNION { StoresOfLen(n) : n \in 0..MaxRows }

\* setHours(0, 0, 0, 0) and date-fns startOfDay, in UTC
StartOfDay(t) == (t \div DayMs) * DayMs

\* SELECT * FROM scrobs WHERE at > since
SelectSince(rows, since) == SelectSeq(rows, LAMBDA row : row.at > since)

Plural(v, label) == IF v > 1 THEN label \o "s" ELSE label

\* formatDuration: the <<value, unit>> pairs that are joined with ', '
FormatDuration(seconds) ==
    LET days    == seconds \div (60 * 60 * 24)
        r1      == seconds - days * (60 * 60 * 24)
        hours   == r1 \div (60 * 60)
        r2      == r1 - hours * (60 * 60)
        minutes == r2 \div 60
        rSecs   == r2 - minutes * 60
        parts   == << <<days, "day">>, <<hours, "hour">>,
                      <<minutes, "minute">>, <<rSecs, "second">> >>
        kept    == SelectSeq(parts, LAMBDA part : part[1] # 0)
    IN  [i \in 1..Len(kept) |-> <<kept[i][1], Plural(kept[i][1], kept[i][2])>>]

RECURSIVE SumDuration(_)
SumDuration(rows) ==
    IF rows = <<>> THEN 0 ELSE rows[1].duration + SumDuration(Tail(rows))

AlbumKey(row) == row.album \o " - " \o row.albumartist

RECURSIVE ByAlbum(_, _)
\* the entries of byAlbum, in the order in which the keys were added
ByAlbum(entries, rows) ==
    IF rows = <<>> THEN entries
    ELSE LET key == AlbumKey(rows[1])
             added == IF \E i \in 1..Len(entries) : entries[i].key = key
                      THEN [i \in 1..Len(entries) |->
                              IF entries[i].key = key
                              THEN [entries[i] EXCEPT
                                       !.scrobs = Append(@, rows[1])]
                              ELSE entries[i]]
                      ELSE Append(entries, [key |-> key, scrobs |-> <<rows[1]>>])
         IN  ByAlbum(added, Tail(rows))

\* insert into a list sorted by descending count, after its equals
InsertByCount(sorted, entry) ==
    LET before_ == SelectSeq(sorted,
                       LAMBDA e : Len(e.scrobs) >= Len(entry.scrobs))
        after_  == SelectSeq(sorted,
                       LAMBDA e : Len(e.scrobs) < Len(entry.scrobs))
    IN  before_ \o <<entry>> \o after_

RECURSIVE SortByCount(_, _)
\* the stable sort of line 270
SortByCount(sorted, entries) ==
    IF entries = <<>> THEN sorted
    ELSE SortByCount(InsertByCount(sorted, entries[1]), Tail(entries))

TopAlbums(rows) ==
    LET sorted == SortByCount(<<>>, ByAlbum(<<>>, rows))
    IN  SubSeq(sorted, 1, Min(5, Len(sorted)))

\* commands.today at the instant now
TodayReport(rows, now) ==
    LET startOfDay == StartOfDay(now) \div 1000
        scrobs     == SelectSince(rows, startOfDay)
        top        == TopAlbums(scrobs)
    IN  [cmd |-> "today",
         since |-> startOfDay,
         scrobs |-> scrobs,
         count |-> Len(scrobs),
         listenTime |-> FormatDuration(SumDuration(scrobs)),
         topAlbums |-> [i \in 1..Len(top) |->
                          <<Len(top[i].scrobs), top[i].key>>]]

\* date-fns format(date, 'E'); 1 January 1970 was a Thursday
DayNames == << "Thu", "Fri", "Sat", "Sun", "Mon", "Tue", "Wed" >>

DayOfWeek(t) == DayNames[((t \div DayMs) % 7) + 1]

\* a / b for integers: the pair <<a, b>>; <<0, 0>> is NaN and <<a, 0>> an
\* infinity
Quotient(a, b) == <<a, b>>

MaxOf(values) == CHOOSE v \in values : \A w \in values : w <= v

\* makeBarChart, lines 80-122
MakeBarChart(data, opts) ==
    LET pad  == (opts.height * 5) \div 100
        pW   == opts.width - pad * 2
        pH   == opts.height - 25 - pad * 2
        bP   == opts.barPad
        n    == Len(data)
        yMax == MaxOf({ data[i].value : i \in 1..n })
    IN  [bars |-> [i \in 1..n |->
                     [height |-> Quotient(data[i].value * pH, yMax),
                      width  |-> Quotient(pW - bP * n, n),
                      x      |-> Quotient((i - 1) * pW, n),
                      y      |-> Quotient(pH * yMax - data[i].value * pH,
                                          yMax)]],
         labels |-> [i \in 1..n |->
                     [children |-> data[i].label,
                      x |-> Quotient(2 * (i - 1) * pW + pW - bP * n, 2 * n)]],
         pH |-> pH]

\* commands.timeChart at the instant now
TimeChartReport(rows, now) ==
    LET start  == StartOfDay(now - 6 * DayMs)
        scrobs == SelectSince(rows, start \div 1000)
        days   == [i \in 1..7 |-> start + (i - 1) * DayMs]
        count(dow) == Cardinality({ i \in 1..Len(scrobs) :
                                      DayOfWeek(scrobs[i].at * 1000) = dow })
        data   == [i \in 1..7 |->
                     [label |-> DayOfWeek(days[i]),
                      value |-> count(DayOfWeek(days[i]))]]
    IN  [cmd |-> "timeChart",
         since |-> start \div 1000,
         scrobs |-> scrobs,
         data |-> data,
         chart |-> MakeBarChart(data, [width |-> 600, height |-> 300,
                                       barPad |-> 5])]

ReportIdle == report = [cmd |-> "none"]

Today ==
    /\ \E now \in ReportTimes : report' = TodayReport(store, now)
    /\ UNCHANGED <<loopVars, adapterVars, dbVars, keyVars>>

TimeChart ==
    /\ \E now \in ReportTimes : report' = TimeChartReport(store, now)
    /\ UNCHANGED <<loopVars, adapterVars, dbVars, keyVars>>

NextReport == Today \/ TimeChart

----------------------------------------------------------------------------
(* getDb *)

\* the processes that open ./mutil.db: the recording loop and a report
Procs == { "scrobd", "report" }

\* every process has come back from getDb and found the table
DbReady ==
    /\ tables = 1
    /\ dbpc = [p \in Procs |-> "done"]

\* lines 15-19: SELECT name FROM sqlite_schema ... ; a process that has
\* returned from getDb may be followed by a new invocation
DbSelect(p) ==
    /\ dbpc[p] \in {"idle", "done"}
    /\ dbpc' = [dbpc EXCEPT ![p] = IF tables > 0 THEN "done" ELSE "create"]
    /\ UNCHANGED <<tables, loopVars, adapterVars, reportVars, keyVars>>

\* lines 20-34: CREATE TABLE scrobs; sqlite rejects the statement when a
\* table of that name exists, and the rejected await ends the command
DbCreate(p) ==
    /\ dbpc[p] = "create"
    /\ IF tables > 0
       THEN /\ dbpc' = [dbpc EXCEPT ![p] = "failed"]
            /\ tables' = tables
       ELSE /\ dbpc' = [dbpc EXCEPT ![p] = "done"]
            /\ tables' = tables + 1
    /\ UNCHANGED <<loopVars, adapterVars, reportVars, keyVars>>

NextDb == \E p \in Procs : DbSelect(p) \/ DbCreate(p)

----------------------------------------------------------------------------
(* The identity of a play, lines 198-202 *)

\* snapshots that differ in the tags the identity is made of; cmus passes a
\* tag on as the file has it, "::" included
KeySnapshots ==
    { Field("albumartist", aa) @@ Field("artist", ar) @@ Field("album", al)
        @@ ("title" :> "T") @@ ("status" :> "playing") :
        aa \in { <<>>, <<"a">>, <<"a::b">> },
        ar \in { <<>>, <<"a">> },
        al \in { <<"b">>, <<"b::c">>, <<"c">> } }

\* (status.albumartist || status.artist, status.album, status.title)
IdentityTuple(st) ==
    << AlbumArtistOrArtist(st), Get(st, "album"), Get(st, "title") >>

KeyIdle == compared = <<>> /\ keys = <<>>

\* two iterations have fetched their snapshots, none has computed its key
KeyInit ==
    /\ compared \in KeySnapshots \X KeySnapshots
    /\ keys = <<>>

\* lines 198-202 in each of the two iterations; line 209 compares the keys
ComputeKeys ==
    /\ compared # <<>>
    /\ keys = <<>>
    /\ keys' = << TrackId(compared[1]), TrackId(compared[2]) >>
    /\ UNCHANGED <<compared, loopVars, adapterVars, reportVars, dbVars>>

NextKey == ComputeKeys

Init == LoopInit /\ AdapterIdle /\ ReportIdle /\ DbReady /\ KeyIdle

Next == Poll

Spec == Init /\ [][Next]_vars

InitAdapter == LoopInit /\ AdapterInit /\ ReportIdle /\ DbReady /\ KeyIdle

NextSkew == PollSkewed

SpecSkew == Init /\ [][NextSkew]_vars

SpecAdapter == InitAdapter /\ [][NextAdapter]_vars

\* the reports run against a table that earlier runs of scrobd have filled
InitReport ==
    /\ \E rows \in Stores : LoopInitWith(rows)
    /\ AdapterIdle
    /\ ReportIdle
    /\ DbReady
    /\ KeyIdle

SpecReport == InitReport /\ [][NextReport]_vars

\* two processes start on a database file that is new, or that earlier runs
\* have filled
InitDb ==
    /\ \/ tables = 0 /\ LoopInitWith(<<>>)
       \/ tables = 1 /\ \E rows \in Stores : LoopInitWith(rows)
    /\ dbpc = [p \in Procs |-> "idle"]
    /\ AdapterIdle
    /\ ReportIdle
    /\ KeyIdle

SpecDb == InitDb /\ [][NextDb]_vars

InitKey == LoopInit /\ AdapterIdle /\ ReportIdle /\ DbReady /\ KeyInit

SpecKey == InitKey /\ [][NextKey]_vars

TypeOK ==
    /\ pc \in {"loop", "crashed"}
    /\ err \in {"none", "SQLITE_CONSTRAINT", "SQLITE_IOERR"}
    /\ lastPollTime \in Readings
    /\ playTime \in Int
    /\ scrobd \in BOOLEAN

----------------------------------------------------------------------------
(* Properties of the scrobd loop *)

\* the iteration of this step compares equal identities (line 209)
SameTrackStep == pc = "loop" /\ TrackId(status') = lastTrackId

PlayingStep == IsPlaying(status')

\* the iteration of this step issued the INSERT of line 219
InsertIssued == Len(store') = Len(store) + 1 \/ pc' = "crashed"

\* the identity of a stored row
RowTrackId(row) ==
    JoinPart(Get(row, "albumartist")) \o "::" \o JoinPart(Get(row, "album"))
        \o "::" \o JoinPart(Get(row, "title"))

\* C1: in a run of polls that all see one identity with status playing, at
\* increasing poll times, at most one row is inserted into the store.
C1_AtMostOneRecordPerRun == runScrobs <= 1

\* the run went on playing after its row was inserted
C1_Witness ==
    /\ runScrobs = 1
    /\ before.scrobd
    /\ before.lastTrackId = lastTrackId
    /\ IsPlaying(status)
    /\ playTime > before.playTime

\* C2: while one track with a known duration d keeps playing, an iteration
\* issues the INSERT exactly when the play is not yet scrobbled and the
\* accumulated play time is strictly greater than min(240000, d * 500); so
\* the record is emitted at the first such iteration and at none before it.
C2_EmitsAtThreshold ==
    [][ ( /\ SameTrackStep
          /\ PlayingStep
          /\ Get(status', "duration") # <<>>
          /\ ~status'.duration.nan )
        => ( /\ InsertIssued <=>
                  ( /\ ~scrobd
                    /\ playTime' > Min(240000, status'.duration.v * 500) )
             /\ pc' = "loop" => scrobd' = (scrobd \/ InsertIssued) )
      ]_vars

\* a track of 200 s is scrobbled by the iteration that brings it to 100001 ms
C2_Witness ==
    /\ Get(status, "duration") = <<Num(200)>>
    /\ playTime = 100001
    /\ ~before.scrobd
    /\ scrobd
    /\ Len(store) = before.rows + 1

\* C3: an iteration that sees another identity than the session's resets
\* playTime to 0 and scrobd to false and inserts nothing; a row is only ever
\* inserted for the identity of the session; the play that follows a change
\* starts from 0, whatever was accumulated for that identity earlier.
C3_ChangeResets ==
    [][ /\ (pc = "loop" /\ TrackId(status') # lastTrackId)
           => ( /\ playTime' = 0
                /\ scrobd' = FALSE
                /\ store' = store
                /\ pc' = "loop"
                /\ lastTrackId' = TrackId(status') )
        /\ Len(store') > Len(store)
           => ( /\ lastTrackId' = lastTrackId
                /\ RowTrackId(store'[Len(store')]) = lastTrackId )
        /\ ( /\ SameTrackStep
             /\ PlayingStep
             /\ pc' = "loop"
             /\ before.lastTrackId # lastTrackId )
           => playTime' <= lastPollTime' - lastPollTime
      ]_vars

\* a play with time accumulated and not scrobbled is abandoned
C3_Witness ==
    /\ pc = "loop"
    /\ before.lastTrackId \notin {Null, lastTrackId}
    /\ before.playTime > 0
    /\ ~before.scrobd
    /\ playTime = 0
    /\ ~scrobd
    /\ Len(store) = before.rows

\* C4: an iteration that sees the session's identity with a status other
\* than playing leaves playTime, scrobd and the store unchanged and only
\* moves lastPollTime; the next playing iteration adds to the frozen value
\* no more than the time since that iteration.
C4_PauseFreezes ==
    [][ /\ (SameTrackStep /\ ~PlayingStep)
           => ( /\ playTime' = playTime
                /\ scrobd' = scrobd
                /\ store' = store
                /\ lastTrackId' = lastTrackId
                /\ lastPollTime' >= lastPollTime + SleepMs
                /\ pc' = "loop" )
        /\ (SameTrackStep /\ PlayingStep /\ pc' = "loop")
           => ( /\ playTime' >= playTime + SleepMs
                /\ playTime' <= playTime + (lastPollTime' - lastPollTime) )
      ]_vars

\* 2000 ms played, a pause of 98 s that is not counted, 2001 ms played
C4_Witness ==
    /\ IsPlaying(status)
    /\ before.lastTrackId = lastTrackId
    /\ before.playTime = 2000
    /\ before.lastPollTime = StartTime + 100000
    /\ playTime = 4001

\* C5: scrobd is set only after the INSERT has succeeded: a play has at most
\* one row, scrobd holds exactly when it has one, and after a rejected INSERT
\* scrobd is false and the play has no row.
C5_FlagOnlyAfterInsert ==
    /\ playScrobs <= 1
    /\ scrobd <=> playScrobs = 1
    /\ pc = "crashed"
       => ( /\ ~scrobd
            /\ playScrobs = 0
            /\ Len(store) = before.rows )

\* the store failed on a row that satisfies the table's constraints
C5_Witness ==
    /\ pc = "crashed"
    /\ err = "SQLITE_IOERR"
    /\ ConstraintsHold(ScrobRow(status, lastPollTime))
    /\ playTime > 0

\* C6: no iteration fails because fields are missing from the snapshot.
C6_MissingFieldsNeverFail == err # "SQLITE_CONSTRAINT"

----------------------------------------------------------------------------
(* Properties of the status adapter *)

\* C9: every status request completes: once the stream is over, closed by
\* the peer or failed, the promise of issueCmusCmd is resolved or rejected.
C9_RequestCompletes ==
    sock \in {"closed", "error"} => promise \in {"resolved", "rejected"}

\* C10: the snapshot getCmusStatus returns holds the fields of all the lines
\* the peer sent before it closed, however the stream cut them into chunks.
C10_SnapshotIgnoresChunking ==
    (apc = "returned" /\ sock = "closed")
        => output = ParseStatus(SubSeq(response, 1, delivered))

----------------------------------------------------------------------------
(* Properties of the reports *)

\* C7: the range query of a report is inclusive at its lower bound: it
\* returns exactly the rows whose at is greater than or equal to since.
C7_RangeInclusive ==
    report.cmd \in {"today", "timeChart"}
        => \A i \in 1..Len(store) :
              (store[i].at >= report.since)
                  <=> (\E j \in 1..Len(report.scrobs) :
                          report.scrobs[j] = store[i])

\* C8: no bar of the chart has an undefined height: when every count is 0
\* every height is 0, otherwise a height is count / max * plot height.
C8_BarHeightsDefined ==
    report.cmd = "timeChart"
        => LET yMax == MaxOf({ report.data[i].value : i \in 1..7 })
           IN  \A i \in 1..7 :
                  LET h == report.chart.bars[i].height
                  IN  /\ h[2] # 0
                      /\ yMax = 0 => h[1] = 0
                      /\ h[1] * yMax
                           = report.data[i].value * report.chart.pH * h[2]

----------------------------------------------------------------------------
(* Properties of getDb *)

\* C11: creating the schema is idempotent: however the invocations of getDb
\* by the two processes follow each other or interleave, none of them fails,
\* a database that an invocation has returned from holds exactly one scrobs
\* table, and the table keeps its rows.
C11_SchemaIdempotent ==
    /\ \A p \in Procs : dbpc[p] # "failed"
    /\ (\E p \in Procs : dbpc[p] = "done") => tables = 1
    /\ Len(store) = before.rows

----------------------------------------------------------------------------
(* Further properties of the scrobd loop *)

\* the snapshot with its duration set to 0
WithDurationZero(st) == ("duration" :> Num(0)) @@ st

\* C12: a snapshot without a duration (and with the tags a row needs) is
\* processed like the same snapshot with duration 0: the iteration inserts a row and sets scrobd exactly when
\* it would for duration 0, that is for a threshold of 0.
C12_NoDurationIsZero ==
    ( /\ pc = "loop"
      /\ status # <<>>
      /\ Get(status, "duration") = <<>>
      /\ ConstraintsHold(ScrobRow(WithDurationZero(status), lastPollTime)) )
    => LET st0  == WithDurationZero(status)
           same == before.lastTrackId = TrackId(status)
           fire == /\ same
                   /\ IsPlaying(status)
                   /\ ShouldScrob(before.scrobd, playTime, st0)
       IN  /\ Len(store) = before.rows + (IF fire THEN 1 ELSE 0)
           /\ scrobd = NextScrobd(before.scrobd, same, IsPlaying(status), fire)

\* C13: for a play that is not scrobbled the line shows
\* floor(playTime * 100 / threshold) percent, threshold being
\* min(240000, duration * 500), and for a threshold of 0 it shows 100 when
\* playTime is positive and 0 otherwise.
C13_PercentDefined ==
    ( /\ status # <<>>
      /\ ~Line.check
      /\ Get(status, "duration") # <<>>
      /\ ~status.duration.nan )
    => LET threshold == Min(240000, status.duration.v * 500)
       IN  Line.percent =
              IF threshold = 0
              THEN (IF before.playTime > 0 THEN 100 ELSE 0)
              ELSE (before.playTime * 100) \div threshold

\* C14: the line shows the checkmark exactly when the play of the track it
\* names has been scrobbled; the line of an iteration that sees a new
\* identity shows neither the checkmark nor the progress of the play before.
C14_LineIsAboutItsTrack ==
    status # <<>>
    => LET same == before.lastTrackId = TrackId(status)
       IN  /\ Line.check <=> (same /\ before.scrobd)
           /\ ~same => Line.percent = 0

\* C15: playTime is never negative, whatever the clock returns: the time an
\* iteration adds is not negative even when the clock was set back.
C15_PlayTimeNonNegative == playTime >= 0

\* C16: a play that goes on (same identity, status playing, clock moving on,
\* store answering) scrobs, whatever its duration, also 0 or unknown: once it
\* has accumulated more than 240000 ms, the largest threshold there is, its
\* row is stored, scrobd is true and the loop goes on. The snapshot names
\* artist, album and title, so that only the duration may be missing.
C16_ContinuousPlayScrobs ==
    ( /\ status # <<>>
      /\ before.lastTrackId = TrackId(status)
      /\ IsPlaying(status)
      /\ playTime > 240000
      /\ err # "SQLITE_IOERR"
      /\ ConstraintsHold(ScrobRow(WithDurationZero(status), lastPollTime)) )
    => ( /\ pc = "loop"
         /\ scrobd
         /\ playScrobs = 1 )

\* C17: two snapshots get the same key exactly when their tuples
\* (albumartist-or-artist, album, title) are equal component by component;
\* no two different tuples share a key.
C17_KeyEqualIffTupleEqual ==
    keys # <<>>
    => ( keys[1] = keys[2]
         <=> IdentityTuple(compared[1]) = IdentityTuple(compared[2]) )

\* C18: while the polls share one identity, whatever their statuses, at most
\* one row is inserted for it: an iteration that sees the session's identity
\* never turns scrobd from true to false, inserts nothing once scrobd is
\* true, and leaves at most one row for the identity.
C18_OneRecordPerIdentity ==
    [][ /\ (scrobd /\ ~scrobd') => TrackId(status') # lastTrackId
        /\ TrackId(status') = lastTrackId
           => ( /\ scrobd => (scrobd' /\ store' = store)
                /\ playScrobs' <= 1
                /\ Len(store') <= Len(store) + 1 )
      ]_vars

\* a scrobbled play was paused and has resumed: no second row
C18_Witness ==
    /\ pc = "loop"
    /\ scrobd
    /\ before.scrobd
    /\ playScrobs = 1
    /\ runScrobs = 0
    /\ before.lastTrackId = lastTrackId
    /\ IsPlaying(status)
    /\ playTime > before.playTime
    /\ Len(store) = before.rows

\* C19: a row is inserted only by an iteration that is not the first, whose
\* snapshot has status playing and the identity the iteration before it saw;
\* and when scrobd becomes true, the snapshot has a duration d and playTime
\* is greater than min(240000, d * 500).
C19_RecordOnlyWhenPlayingSame ==
    [][ /\ Len(store') > Len(store)
           => ( /\ lastTrackId # Null
                /\ Get(status', "status") = <<"playing">>
                /\ TrackId(status') = lastTrackId
                /\ lastTrackId' = lastTrackId )
        /\ (~scrobd /\ scrobd')
           => ( /\ Len(store') = Len(store) + 1
                /\ Get(status', "duration") # <<>>
                /\ ~status'.duration.nan
                /\ playTime' > Min(240000, status'.duration.v * 500) )
      ]_vars

\* a play of a 600 s track is scrobbled once it has passed 240000 ms
C19_Witness ==
    /\ scrobd
    /\ ~before.scrobd
    /\ before.lastTrackId = lastTrackId
    /\ Get(status, "status") = <<"playing">>
    /\ Get(status, "duration") = <<Num(600)>>
    /\ playTime > 240000
    /\ before.playTime <= 240000
    /\ Len(store) = before.rows + 1

\* C20: under a clock that does not go backwards, playTime is at most the
\* time that has passed since the iteration that first saw the current
\* identity; an iteration that sees another identity starts from 0 and one
\* that sees a status other than playing adds nothing.
C20_PlayTimeWithinElapsed ==
    /\ playTime <= lastNow - firstSeen
    /\ status # <<>>
       => ( /\ before.lastTrackId # TrackId(status) => playTime = 0
            /\ ( /\ before.lastTrackId = TrackId(status)
                 /\ Get(status, "status") # <<"playing">> )
               => playTime = before.playTime )

\* a play that was paused for a while: the pause is not counted
C20_Witness ==
    /\ pc = "loop"
    /\ before.lastTrackId = lastTrackId
    /\ Get(status, "status") = <<"playing">>
    /\ before.playTime > 0
    /\ playTime > before.playTime
    /\ playTime < lastNow - firstSeen

====
